---- MODULE Spec2Model ----
(***************************************************************************)
(* Model of the two lineup optimizers of ff-optimizer:                     *)
(*   backend/app.py                              parse_rows, solve_lineups *)
(*   backend/auction_lineup_optimizer_strict.py  solve_top_k_strict        *)
(* Strings the code transforms (names, positions, anchor strings) are      *)
(* sequences of one-character strings.  Prices and projections are         *)
(* integers.  A slot's player is an index into the pool (0 is None): the   *)
(* code binds a reference to the pool's row.                               *)
(***************************************************************************)
EXTENDS Integers, Sequences, FiniteSets, TLC

VARIABLES pc, payload_rows, rows, budget, k, roster, pool, anchor_names,
          seed_slots, best_slots, slots, chosen_names, spent,
          cost_it, up_it, ret, results, div_i, alts, alt_j, tried, returned,
          df, anchors_in, anchor_groups, rep, banned_sets, solutions, unmatched,
          solver_calls

vars == <<pc, payload_rows, rows, budget, k, roster, pool, anchor_names,
          seed_slots, best_slots, slots, chosen_names, spent,
          cost_it, up_it, ret, results, div_i, alts, alt_j, tried, returned,
          df, anchors_in, anchor_groups, rep, banned_sets, solutions, unmatched,
          solver_calls>>

\* the request and what solve_lineups derives from it once
reqVars == <<payload_rows, rows, roster, pool, anchor_names, seed_slots>>

\* locals of _improve_slots_within_budget
impVars == <<slots, chosen_names, spent, cost_it, up_it, ret>>

\* locals of the diversify loop
divVars == <<best_slots, div_i, alts, alt_j, tried>>

heurVars == <<reqVars, impVars, divVars, results, returned>>

exactVars == <<df, anchors_in, anchor_groups, rep, banned_sets, solutions, unmatched,
               solver_calls>>

(***************************************************************************)
(* Bounds of the model.                                                    *)
(***************************************************************************)
MaxRows == 3
MaxBudget == 2
MaxK == 2
MaxParseRows == 2
MaxAnchors == 2
MaxExactBudget == 13

(***************************************************************************)
(* Generic helpers.                                                        *)
(***************************************************************************)
Max(a, b) == IF a >= b THEN a ELSE b

Min(a, b) == IF a <= b THEN a ELSE b

MinOf(S) == CHOOSE x \in S : \A y \in S : x <= y

Range(s) == {s[i] : i \in DOMAIN s}

RECURSIVE SumOver(_, _)
SumOver(f, S) == IF S = {} THEN 0
                 ELSE LET x == CHOOSE y \in S : TRUE
                      IN f[x] + SumOver(f, S \ {x})

SeqSum(s) == SumOver(s, DOMAIN s)

SeqsUpTo(S, n) == UNION {[1..m -> S] : m \in 0..n}

(***************************************************************************)
(* Strings as character sequences: str.strip, str.upper.                   *)
(***************************************************************************)
RECURSIVE LStrip(_)
LStrip(s) == IF s = <<>> THEN s
             ELSE IF Head(s) = " " THEN LStrip(Tail(s)) ELSE s

RECURSIVE RStrip(_)
RStrip(s) == IF s = <<>> THEN s
             ELSE IF s[Len(s)] = " " THEN RStrip(SubSeq(s, 1, Len(s) - 1))
             ELSE s

Strip(s) == RStrip(LStrip(s))

UpperChar(c) == CASE c = "q" -> "Q" [] c = "b" -> "B" [] c = "r" -> "R"
                  [] c = "w" -> "W" [] c = "t" -> "T" [] c = "e" -> "E"
                  [] c = "a" -> "A" [] c = "z" -> "Z"
                  [] OTHER -> c

Upper(s) == [i \in DOMAIN s |-> UpperChar(s[i])]

(***************************************************************************)
(* Slot types and positions.                                               *)
(***************************************************************************)
QB == <<"Q", "B">>
RB == <<"R", "B">>
WR == <<"W", "R">>
TE == <<"T", "E">>
KICKER == <<"K">>
DST == <<"D", "S", "T">>
FLEX == <<"F", "L", "E", "X">>

BASE_TYPES == <<QB, RB, WR, TE, KICKER, DST>>

DEFAULT_ROSTER == (QB :> 1) @@ (RB :> 2) @@ (WR :> 2) @@ (TE :> 1)
                  @@ (FLEX :> 1) @@ (KICKER :> 0) @@ (DST :> 0)

FLEX_POS == {RB, WR, TE}

(***************************************************************************)
(* parse_rows.  A raw row carries Name/name, Pos/position, Price and       *)
(* Projection; a numeric field is [ok, val], ok = FALSE standing for a     *)
(* value float() raises on (missing, None, text).                          *)
(***************************************************************************)
FirstTruthy(a, b) == IF a # <<>> THEN a ELSE b

ParseFloat(f) == IF f.ok THEN f.val ELSE 0

RowName(r) == Strip(FirstTruthy(r.Name, r.name))

RowPos(r) == Upper(Strip(FirstTruthy(r.Pos, r.position)))

\* variant: the position is not checked
RowKept_nameonly(r) == RowName(r) # <<>>

RowKept(r) == RowName(r) # <<>> /\ RowPos(r) # <<>>

ParseRow(r) == [Name |-> RowName(r), Pos |-> RowPos(r),
                Price |-> Max(0, ParseFloat(r.Price)),
                Projection |-> Max(0, ParseFloat(r.Projection)),
                anchor |-> r.anchor, exclude |-> r.exclude]

RECURSIVE parse_rows(_)
parse_rows(p) == IF p = <<>> THEN <<>>
                 ELSE IF RowKept(Head(p))
                      THEN <<ParseRow(Head(p))>> \o parse_rows(Tail(p))
                      ELSE parse_rows(Tail(p))

RECURSIVE FilterSeq(_, _)
FilterSeq(s, keep) == IF s = <<>> THEN <<>>
                      ELSE IF keep[1] THEN <<Head(s)>> \o FilterSeq(Tail(s), Tail(keep))
                           ELSE FilterSeq(Tail(s), Tail(keep))

\* pl = [r for r in rows if not r.get("exclude", False)]
PoolOf(rs) == FilterSeq(rs, [i \in DOMAIN rs |-> ~rs[i].exclude])

\* anchors = [r for r in pl if r.get("anchor", False)], as pl indices
AnchorsOf(pl) == FilterSeq([i \in DOMAIN pl |-> i],
                             [i \in DOMAIN pl |-> pl[i].anchor])

AnchorNames(pl) == {pl[i].Name : i \in Range(AnchorsOf(pl))}

(***************************************************************************)
(* make_solution_payload and the slot helpers.                             *)
(***************************************************************************)
Repeat(t, n) == [i \in 1..n |-> [type |-> t, player |-> 0]]

RECURSIVE BuildBase(_, _)
BuildBase(ro, ts) == IF ts = <<>> THEN <<>>
                     ELSE Repeat(Head(ts), Max(0, ro[Head(ts)])) \o BuildBase(ro, Tail(ts))

_build_slots(ro) == BuildBase(ro, BASE_TYPES) \o Repeat(FLEX, Max(0, ro[FLEX]))

_slot_allows(slot_type, pos) == IF slot_type = FLEX THEN pos \in FLEX_POS
                                ELSE slot_type = pos

\* indices of the bound players, in slot order
_slots_players(sl) == FilterSeq([i \in DOMAIN sl |-> sl[i].player],
                                [i \in DOMAIN sl |-> sl[i].player # 0])

_slots_spent(pl, sl) ==
    SeqSum([i \in DOMAIN sl |-> IF sl[i].player = 0 THEN 0 ELSE pl[sl[i].player].Price])

make_solution_payload(pl, players) ==
    [players |-> [i \in DOMAIN players |-> pl[players[i]]],
     total_price |-> SeqSum([i \in DOMAIN players |-> pl[players[i]].Price]),
     total_projection |-> SeqSum([i \in DOMAIN players |-> pl[players[i]].Projection])]

(***************************************************************************)
(* _assign_anchor and _seed_cheapest_slots.                                *)
(***************************************************************************)
AnchorSlot(pl, sl, a) ==
    LET base == {i \in DOMAIN sl : sl[i].player = 0 /\ sl[i].type # FLEX
                                   /\ _slot_allows(sl[i].type, pl[a].Pos)}
        flex == {i \in DOMAIN sl : sl[i].player = 0 /\ sl[i].type = FLEX
                                   /\ _slot_allows(FLEX, pl[a].Pos)}
    IN IF base # {} THEN MinOf(base)
       ELSE IF flex # {} THEN MinOf(flex) ELSE 0

_assign_anchor(pl, sl, a) ==
    LET i == AnchorSlot(pl, sl, a)
    IN IF i = 0 THEN sl ELSE [sl EXCEPT ![i].player = a]

RECURSIVE PlaceAnchors(_, _, _)
PlaceAnchors(pl, st, as) ==
    IF as = <<>> THEN st
    ELSE LET a == Head(as)
             placed == AnchorSlot(pl, st.slots, a) # 0
             nxt == IF placed
                    THEN [slots |-> _assign_anchor(pl, st.slots, a),
                          chosen |-> st.chosen \cup {pl[a].Name},
                          spent |-> st.spent + pl[a].Price]
                    ELSE st
         IN PlaceAnchors(pl, nxt, Tail(as))

\* cands.sort(key=(Price, -Projection)); cands[0]: the sort is stable
CheapestOf(pl, C) ==
    CHOOSE r \in C : \A q \in C :
        \/ pl[r].Price < pl[q].Price
        \/ pl[r].Price = pl[q].Price /\ pl[r].Projection > pl[q].Projection
        \/ pl[r].Price = pl[q].Price /\ pl[r].Projection = pl[q].Projection /\ r <= q

\* variant: filling stops at the first slot without a candidate
RECURSIVE FillSlots_stop(_, _, _)
FillSlots_stop(pl, st, i) ==
    IF i > Len(st.slots) THEN st
    ELSE IF st.slots[i].player # 0 THEN FillSlots_stop(pl, st, i + 1)
    ELSE LET cands == {r \in DOMAIN pl : pl[r].Name \notin st.chosen
                                         /\ _slot_allows(st.slots[i].type, pl[r].Pos)}
         IN IF cands = {} THEN st
            ELSE LET pick == CheapestOf(pl, cands)
                 IN FillSlots_stop(pl,
                                   [slots |-> [st.slots EXCEPT ![i].player = pick],
                                    chosen |-> st.chosen \cup {pl[pick].Name},
                                    spent |-> st.spent + pl[pick].Price],
                                   i + 1)

RECURSIVE FillSlots(_, _, _)
FillSlots(pl, st, i) ==
    IF i > Len(st.slots) THEN st
    ELSE IF st.slots[i].player # 0 THEN FillSlots(pl, st, i + 1)
    ELSE LET cands == {r \in DOMAIN pl : pl[r].Name \notin st.chosen
                                          /\ _slot_allows(st.slots[i].type, pl[r].Pos)}
         IN IF cands = {} THEN FillSlots(pl, st, i + 1)
            ELSE LET pick == CheapestOf(pl, cands)
                 IN FillSlots(pl,
                              [slots |-> [st.slots EXCEPT ![i].player = pick],
                               chosen |-> st.chosen \cup {pl[pick].Name},
                               spent |-> st.spent + pl[pick].Price],
                              i + 1)

_seed_cheapest_slots(pl, anchors, ro) ==
    FillSlots(pl,
              PlaceAnchors(pl, [slots |-> _build_slots(ro), chosen |-> {}, spent |-> 0],
                           anchors),
              1)

(***************************************************************************)
(* _improve_slots_within_budget: the cost-reduction loop (one iteration).  *)
(***************************************************************************)
COST_ITERS == 200
UPGRADE_ITERS == 600
M == 12

NamesOf(pl, sl) == {pl[sl[i].player].Name : i \in {j \in DOMAIN sl : sl[j].player # 0}}

\* variant: anchors are not locked
Swappable_unlocked(pl, an, sl, i) == sl[i].player # 0

\* a slot the loops may touch: bound, and its player's name is no anchor's
Swappable(pl, an, sl, i) == sl[i].player # 0 /\ pl[sl[i].player].Name \notin an

CostCands(pl, sl, chosen, i) ==
    {r \in DOMAIN pl : /\ pl[r].Name \notin chosen
                         /\ _slot_allows(sl[i].type, pl[r].Pos)
                         /\ pl[r].Price < pl[sl[i].player].Price}

\* cands.sort(key=(cur.Price - r.Price, r.Projection), reverse=True); cands[0]
CostRep(pl, sl, chosen, i) ==
    LET C == CostCands(pl, sl, chosen, i)
    IN CHOOSE r \in C : \A q \in C :
        \/ pl[r].Price < pl[q].Price
        \/ pl[r].Price = pl[q].Price /\ pl[r].Projection > pl[q].Projection
        \/ pl[r].Price = pl[q].Price /\ pl[r].Projection = pl[q].Projection /\ r <= q

CostSaving(pl, sl, chosen, i) ==
    pl[sl[i].player].Price - pl[CostRep(pl, sl, chosen, i)].Price

CostSlots(pl, an, sl, chosen) ==
    {i \in DOMAIN sl : Swappable(pl, an, sl, i) /\ CostCands(pl, sl, chosen, i) # {}}

\* variant: best is replaced on an equal saving too
CostBest_last(pl, an, sl, chosen) ==
    LET E == CostSlots(pl, an, sl, chosen)
    IN IF E = {} THEN 0
       ELSE CHOOSE i \in E : \A j \in E :
              \/ CostSaving(pl, sl, chosen, i) > CostSaving(pl, sl, chosen, j)
              \/ CostSaving(pl, sl, chosen, i) = CostSaving(pl, sl, chosen, j) /\ i >= j

\* best = (saving, i, rep): replaced only on a strictly larger saving
CostBest(pl, an, sl, chosen) ==
    LET E == CostSlots(pl, an, sl, chosen)
    IN IF E = {} THEN 0
       ELSE CHOOSE i \in E : \A j \in E :
              \/ CostSaving(pl, sl, chosen, i) > CostSaving(pl, sl, chosen, j)
              \/ CostSaving(pl, sl, chosen, i) = CostSaving(pl, sl, chosen, j) /\ i <= j

(***************************************************************************)
(* The upgrade loop (one iteration).                                       *)
(***************************************************************************)
UpCands(pl, an, sl, chosen, left) ==
    {p \in (DOMAIN sl) \X (DOMAIN pl) :
        /\ Swappable(pl, an, sl, p[1])
        /\ pl[p[2]].Name \notin chosen
        /\ _slot_allows(sl[p[1]].type, pl[p[2]].Pos)
        /\ pl[p[2]].Projection > pl[sl[p[1]].player].Projection
        /\ pl[p[2]].Price - pl[sl[p[1]].player].Price > 0
        /\ pl[p[2]].Price - pl[sl[p[1]].player].Price <= left}

Gain(pl, sl, p) == pl[p[2]].Projection - pl[sl[p[1]].player].Projection

Extra(pl, sl, p) == pl[p[2]].Price - pl[sl[p[1]].player].Price

\* ratio(p) > ratio(q), ratio = gain / extra with extra > 0
RatioGreater(pl, sl, p, q) ==
    Gain(pl, sl, p) * Extra(pl, sl, q) > Gain(pl, sl, q) * Extra(pl, sl, p)

RatioEqual(pl, sl, p, q) ==
    Gain(pl, sl, p) * Extra(pl, sl, q) = Gain(pl, sl, q) * Extra(pl, sl, p)

\* best = (ratio, i, r): replaced only on a strictly larger ratio, slots in
\* order and each slot's candidates in pl order
UpBest(pl, an, sl, chosen, left) ==
    LET P == UpCands(pl, an, sl, chosen, left)
    IN CHOOSE p \in P : \A q \in P :
        \/ RatioGreater(pl, sl, p, q)
        \/ /\ RatioEqual(pl, sl, p, q)
           /\ (p[1] < q[1] \/ (p[1] = q[1] /\ p[2] <= q[2]))

\* chosen_names.remove(old); chosen_names.add(new); slots[i]["player"] = rep
SwapIn(pl, sl, chosen, sp, i, r) ==
    [slots |-> [sl EXCEPT ![i].player = r],
     chosen |-> (chosen \ {pl[sl[i].player].Name}) \cup {pl[r].Name},
     spent |-> sp + pl[r].Price - pl[sl[i].player].Price]

(***************************************************************************)
(* solve_lineups: push, _candidates_by_slot, the final sort.               *)
(***************************************************************************)
KEff(kk) == Max(1, kk)

\* sig = tuple(sorted(names)): two signatures are equal iff the names agree
\* with their multiplicities
Sig(payload) ==
    [n \in {payload.players[i].Name : i \in DOMAIN payload.players} |->
        Cardinality({i \in DOMAIN payload.players : payload.players[i].Name = n})]

\* variant: the signature is not compared
push_nodedup(pl, res, sl) == Append(res, make_solution_payload(pl, _slots_players(sl)))

push(pl, res, sl) ==
    LET payload == make_solution_payload(pl, _slots_players(sl))
    IN IF Sig(payload) \notin {Sig(res[j]) : j \in DOMAIN res}
       THEN Append(res, payload) ELSE res

RECURSIVE StableDesc(_, _)
StableDesc(key, S) ==
    IF S = {} THEN <<>>
    ELSE LET top == CHOOSE i \in S : \A j \in S :
                        key[i] > key[j] \/ (key[i] = key[j] /\ i <= j)
         IN <<top>> \o StableDesc(key, S \ {top})

\* by_slot.get(key, []): the pl's rows of that position (for FLEX also
\* every row of a flexible position), sorted by Projection, descending
_candidates_by_slot(pl, key) ==
    StableDesc([i \in DOMAIN pl |-> pl[i].Projection],
               {i \in DOMAIN pl : pl[i].Pos = key
                                    \/ (key = FLEX /\ pl[i].Pos \in FLEX_POS)})

\* alts of the diversify loop for slot i of best_slots
Alts(pl, bs, i) ==
    LET by == _candidates_by_slot(pl, bs[i].type)
        chosen == NamesOf(pl, bs)
    IN FilterSeq(by, [j \in DOMAIN by |->
                         pl[by[j]].Name \notin chosen
                         /\ pl[by[j]].Name # pl[bs[i].player].Name])

\* variant: the list is left in recording order
SortResults_unsorted(res) == res

\* results.sort(key=total_projection, reverse=True)
SortResults(res) ==
    LET ord == StableDesc([j \in DOMAIN res |-> res[j].total_projection], DOMAIN res)
    IN [j \in DOMAIN res |-> res[ord[j]]]

Take(s, n) == SubSeq(s, 1, Min(n, Len(s)))

(***************************************************************************)
(* auction_lineup_optimizer_strict.py: normalize_name, simplify_key,       *)
(* match_anchor_indices.  The modelled alphabet is ASCII, on which the     *)
(* NFKD/ascii step of normalize_name changes nothing.                      *)
(***************************************************************************)
LowerChar(c) == CASE c = "Q" -> "q" [] c = "R" -> "r" [] c = "W" -> "w"
                  [] c = "T" -> "t" [] c = "Z" -> "z" [] c = "A" -> "a"
                  [] c = "B" -> "b" [] c = "C" -> "c"
                  [] OTHER -> c

Lower(s) == [i \in DOMAIN s |-> LowerChar(s[i])]

AlnumLower == {"a", "b", "c", "q", "r", "t", "w", "z", "0", "1"}

\* re.sub(r"\s+", " ", s)
RECURSIVE CollapseSpaces(_)
CollapseSpaces(s) ==
    IF Len(s) < 2 THEN s
    ELSE IF s[1] = " " /\ s[2] = " " THEN CollapseSpaces(Tail(s))
    ELSE <<s[1]>> \o CollapseSpaces(Tail(s))

normalize_name(s) == Lower(Strip(CollapseSpaces(s)))

RECURSIVE KeepAlnum(_)
KeepAlnum(s) == IF s = <<>> THEN <<>>
                ELSE IF Head(s) \in AlnumLower THEN <<Head(s)>> \o KeepAlnum(Tail(s))
                ELSE KeepAlnum(Tail(s))

simplify_key(s) == KeepAlnum(Lower(s))

\* Series.str.contains(a) for an alphanumeric pattern a: substring test
Contains(hay, a) ==
    \E i \in 1..(Len(hay) - Len(a) + 1) : SubSeq(hay, i, i + Len(a) - 1) = a

AnchorKey(raw) == simplify_key(normalize_name(Strip(raw)))

MatchIdxs(d, a) == {i \in DOMAIN d : Contains(d[i].NameKeySimpl, a)}

RECURSIVE match_anchor_indices(_, _)
match_anchor_indices(d, as) ==
    IF as = <<>> THEN <<>>
    ELSE IF AnchorKey(Head(as)) = <<>> THEN match_anchor_indices(d, Tail(as))
    ELSE <<MatchIdxs(d, AnchorKey(Head(as)))>> \o match_anchor_indices(d, Tail(as))

\* [a for a, g in zip(anchors, anchor_groups) if len(g) == 0]
Unmatched(as, groups) ==
    LET n == Min(Len(as), Len(groups))
    IN FilterSeq(SubSeq(as, 1, n), [i \in 1..n |-> groups[i] = {}])

(***************************************************************************)
(* solve_top_k_strict: the integer program of one rank and its labeling.   *)
(***************************************************************************)
ExactMinBudget == 11
ROSTER_SIZE == 7
BANNED_MAX == 6

CountPos(d, S, ps) == Cardinality({i \in S : d[i].Pos = ps})

Cost(d, S) == SumOver([i \in DOMAIN d |-> d[i].Price], S)

Points(d, S) == SumOver([i \in DOMAIN d |-> d[i].Projection], S)

\* variant: the QB count is a minimum
Feasible_minqb(d, b, groups, banned, S) ==
    /\ Cost(d, S) <= b
    /\ Cardinality(S) = ROSTER_SIZE
    /\ CountPos(d, S, QB) >= 1
    /\ CountPos(d, S, TE) >= 1
    /\ CountPos(d, S, RB) >= 2
    /\ CountPos(d, S, WR) >= 2
    /\ \A g \in DOMAIN groups : groups[g] # {} => groups[g] \cap S # {}
    /\ \A j \in DOMAIN banned : Cardinality(banned[j] \cap S) <= BANNED_MAX

\* the constraints added to prob at lines 105-117
Feasible(d, b, groups, banned, S) ==
    /\ Cost(d, S) <= b
    /\ Cardinality(S) = ROSTER_SIZE
    /\ CountPos(d, S, QB) = 1
    /\ CountPos(d, S, TE) >= 1
    /\ CountPos(d, S, RB) >= 2
    /\ CountPos(d, S, WR) >= 2
    /\ \A g \in DOMAIN groups : groups[g] # {} => groups[g] \cap S # {}
    /\ \A j \in DOMAIN banned : Cardinality(banned[j] \cap S) <= BANNED_MAX

\* the selections x of ROSTER_SIZE items that satisfy the constraints
FeasibleSets(d, b, groups, banned) ==
    {S \in {T \in SUBSET (DOMAIN d) : Cardinality(T) = ROSTER_SIZE} :
        Feasible(d, b, groups, banned, S)}

\* variant: any feasible set is accepted
OptimalSets_any(d, F) == F

\* prob.solve(): status Optimal with any maximiser of the objective
OptimalSets(d, F) == {S \in F : \A T \in F : Points(d, S) >= Points(d, T)}

\* rows[rows.Pos == ps].sort_values("Projection", ascending=False), ties in
\* index order
ByProjection(d, S) == StableDesc([i \in DOMAIN d |-> d[i].Projection], S)

Labeled(d, idxs, label) ==
    [j \in DOMAIN idxs |-> [Slot |-> label, Name |-> d[idxs[j]].Name,
                            Pos |-> d[idxs[j]].Pos, Price |-> d[idxs[j]].Price,
                            Projection |-> d[idxs[j]].Projection]]

SlotTable(d, S) ==
    LET qb == Take(ByProjection(d, {i \in S : d[i].Pos = QB}), 1)
        te == Take(ByProjection(d, {i \in S : d[i].Pos = TE}), 1)
        wr == Take(ByProjection(d, {i \in S : d[i].Pos = WR}), 2)
        rb == Take(ByProjection(d, {i \in S : d[i].Pos = RB}), 2)
        rem == S \ (Range(qb) \cup Range(te) \cup Range(wr) \cup Range(rb))
        flex == Take(ByProjection(d, rem), 1)
    IN Labeled(d, qb, "QB") \o Labeled(d, <<rb[1]>>, "RB1")
       \o Labeled(d, <<rb[2]>>, "RB2") \o Labeled(d, <<wr[1]>>, "WR1")
       \o Labeled(d, <<wr[2]>>, "WR2") \o Labeled(d, te, "TE")
       \o Labeled(d, flex, "FLEX")

(***************************************************************************)
(* Inputs of the exact engine: a table as load_table leaves it (one row    *)
(* per NameKey), less the rows apply_excludes removed.                     *)
(***************************************************************************)
Item(nm, ps, pr, pj) ==
    [Name |-> nm, NameKeySimpl |-> simplify_key(normalize_name(nm)),
     Pos |-> ps, Price |-> pr, Projection |-> pj]

ExactTable ==
    << Item(<<"Q", "a">>, QB, 3, 5), Item(<<"Q", "b">>, QB, 2, 3),
       Item(<<"R", " ", "a">>, RB, 3, 4), Item(<<"R", "b">>, RB, 2, 3),
       Item(<<"R", "c">>, RB, 1, 2), Item(<<"W", "a">>, WR, 3, 4),
       Item(<<"W", "b">>, WR, 2, 3), Item(<<"W", "c">>, WR, 1, 2),
       Item(<<"T", "a">>, TE, 1, 2) >>

Without(d, i) == FilterSeq(d, [j \in DOMAIN d |-> j # i])

ExactTables == {ExactTable} \cup {Without(ExactTable, i) : i \in DOMAIN ExactTable}

AnchorStrings ==
    { <<"Q", "b">>, <<" ", "r">>, <<"z">>, <<"!">>, <<"t", "!", "a">> }

(***************************************************************************)
(* Actions of the exact engine.                                            *)
(***************************************************************************)
\* solve_top_k_strict up to the loop: the anchor groups and the unmatched check
ExactStart(d, b, kk, as) ==
    /\ df' = d
    /\ budget' = b
    /\ k' = kk
    /\ anchors_in' = as
    /\ LET groups == match_anchor_indices(d, as)
       IN /\ anchor_groups' = groups
          /\ IF as # <<>> /\ Unmatched(as, groups) # <<>>
             THEN /\ unmatched' = Unmatched(as, groups)
                  /\ pc' = "x_failed"
             ELSE /\ unmatched' = <<>>
                  /\ pc' = "x_loop"
    /\ rep' = 0
    /\ solutions' = <<>>
    /\ banned_sets' = <<>>
    /\ UNCHANGED solver_calls
    /\ UNCHANGED heurVars

ExactRequest ==
    /\ pc = "idle"
    /\ \E d \in ExactTables, b \in ExactMinBudget..MaxExactBudget, kk \in 1..MaxK,
          as \in SeqsUpTo(AnchorStrings, MaxAnchors) : ExactStart(d, b, kk, as)

\* one pass of "for rep in range(k)" in which the solver reports Optimal
SolveRankFound ==
    /\ pc = "x_loop"
    /\ rep < k
    /\ \E chosen \in OptimalSets(df, FeasibleSets(df, budget, anchor_groups, banned_sets)) :
          /\ banned_sets' = Append(banned_sets, chosen)
          /\ solutions' = Append(solutions,
                                 [rank |-> rep + 1,
                                  total_cost |-> Cost(df, chosen),
                                  total_points |-> Points(df, chosen),
                                  table |-> SlotTable(df, chosen)])
    /\ rep' = rep + 1
    /\ solver_calls' = solver_calls + 1
    /\ UNCHANGED <<pc, budget, k, df, anchors_in, anchor_groups, unmatched>>
    /\ UNCHANGED heurVars

\* the solver reports a status other than Optimal: break
SolveRankInfeasible ==
    /\ pc = "x_loop"
    /\ rep < k
    /\ FeasibleSets(df, budget, anchor_groups, banned_sets) = {}
    /\ solver_calls' = solver_calls + 1
    /\ pc' = "x_done"
    /\ UNCHANGED <<budget, k, df, anchors_in, anchor_groups, rep, banned_sets,
                   solutions, unmatched>>
    /\ UNCHANGED heurVars

\* range(k) is exhausted: return solutions
ExactReturn ==
    /\ pc = "x_loop"
    /\ rep >= k
    /\ pc' = "x_done"
    /\ UNCHANGED <<budget, k, exactVars>>
    /\ UNCHANGED heurVars

(***************************************************************************)
(* Inputs of the heuristic engine (POST /optimize).                        *)
(***************************************************************************)
Num(v) == [ok |-> TRUE, val |-> v]

Unparsable == [ok |-> FALSE, val |-> 0]

Raw(nm, ps, pr, pj, an, ex) ==
    [Name |-> nm, name |-> <<>>, Pos |-> ps, position |-> <<>>,
     Price |-> pr, Projection |-> pj, anchor |-> an, exclude |-> ex]

RawRows ==
    { Raw(<<"A">>, <<"r", "b">>, Num(1), Num(1), TRUE, FALSE),
      Raw(<<"A">>, WR, Num(2), Num(3), FALSE, FALSE),
      Raw(<<"B">>, <<"W", "R", " ">>, Num(1), Num(1), FALSE, FALSE),
      Raw(<<"B">>, RB, Num(2), Num(3), FALSE, FALSE),
      Raw(<<"C">>, RB, Num(1), Num(2), TRUE, TRUE),
      Raw(<<"D">>, WR, Unparsable, Num(2), FALSE, FALSE) }

RosterOverrides ==
    { <<>>,
      (QB :> 1) @@ (RB :> 0) @@ (WR :> 1) @@ (TE :> 0) @@ (FLEX :> 0),
      (QB :> 0) @@ (RB :> 1) @@ (WR :> 0) @@ (TE :> 0) @@ (FLEX :> 1) }

\* {**DEFAULT_ROSTER, **(roster or {})}
MergeRoster(o) == [t \in (DOMAIN DEFAULT_ROSTER) \cup (DOMAIN o) |->
                      IF t \in DOMAIN o THEN o[t] ELSE DEFAULT_ROSTER[t]]

(***************************************************************************)
(* Actions of the heuristic engine.                                        *)
(***************************************************************************)
\* optimize(): rows = parse_rows(payload["rows"]), budget, k, roster
Optimize(p, b, kk, o) ==
    /\ payload_rows' = p
    /\ rows' = parse_rows(p)
    /\ budget' = b
    /\ k' = kk
    /\ roster' = o
    /\ pc' = "solve"
    /\ UNCHANGED <<pool, anchor_names, seed_slots, impVars, divVars, results, returned>>
    /\ UNCHANGED exactVars

\* POST /optimize with any payload of the bounded input space
OptimizeRequest ==
    /\ pc = "idle"
    /\ \E p \in SeqsUpTo(RawRows, MaxRows), b \in 0..MaxBudget, kk \in 1..MaxK,
          o \in RosterOverrides : Optimize(p, b, kk, o)

\* solve_lineups up to the first call of _improve_slots_within_budget
SolveSeed ==
    /\ pc = "solve"
    /\ LET ro == MergeRoster(roster)
           pl == PoolOf(rows)
           seed == _seed_cheapest_slots(pl, AnchorsOf(pl), ro)
       IN /\ roster' = ro
          /\ pool' = pl
          /\ anchor_names' = AnchorNames(pl)
          /\ seed_slots' = seed.slots
          /\ slots' = seed.slots
          /\ chosen_names' = NamesOf(pl, seed.slots)
          /\ spent' = _slots_spent(pl, seed.slots)
    /\ cost_it' = 0
    /\ ret' = "best"
    /\ pc' = "cost"
    /\ UNCHANGED <<payload_rows, rows, budget, k, up_it, divVars, results, returned>>
    /\ UNCHANGED exactVars

\* one iteration of the cost-reduction loop that applies a swap
CostReduceSwap ==
    /\ pc = "cost"
    /\ cost_it < COST_ITERS
    /\ spent > budget
    /\ CostBest(pool, anchor_names, slots, chosen_names) # 0
    /\ LET i == CostBest(pool, anchor_names, slots, chosen_names)
           s == SwapIn(pool, slots, chosen_names, spent, i,
                       CostRep(pool, slots, chosen_names, i))
       IN /\ slots' = s.slots
          /\ chosen_names' = s.chosen
          /\ spent' = s.spent
    /\ cost_it' = cost_it + 1
    /\ UNCHANGED <<pc, budget, k, reqVars, up_it, ret, divVars, results, returned>>
    /\ UNCHANGED exactVars

\* the cost-reduction loop ends: within budget, no swap, or the cap
CostReduceExit ==
    /\ pc = "cost"
    /\ \/ cost_it >= COST_ITERS
       \/ spent <= budget
       \/ CostBest(pool, anchor_names, slots, chosen_names) = 0
    /\ pc' = "upgrade"
    /\ up_it' = 0
    /\ UNCHANGED <<budget, k, reqVars, slots, chosen_names, spent, cost_it, ret,
                   divVars, results, returned>>
    /\ UNCHANGED exactVars

\* one iteration of the upgrade loop that applies a swap
UpgradeSwap ==
    /\ pc = "upgrade"
    /\ up_it < UPGRADE_ITERS
    /\ budget - spent > 0
    /\ UpCands(pool, anchor_names, slots, chosen_names, budget - spent) # {}
    /\ LET p == UpBest(pool, anchor_names, slots, chosen_names, budget - spent)
           s == SwapIn(pool, slots, chosen_names, spent, p[1], p[2])
       IN /\ slots' = s.slots
          /\ chosen_names' = s.chosen
          /\ spent' = s.spent
    /\ up_it' = up_it + 1
    /\ UNCHANGED <<pc, budget, k, reqVars, cost_it, ret, divVars, results, returned>>
    /\ UNCHANGED exactVars

UpgradeDone ==
    \/ up_it >= UPGRADE_ITERS
    \/ budget - spent <= 0
    \/ UpCands(pool, anchor_names, slots, chosen_names, budget - spent) = {}

\* the first improve returns: best_slots, push(best_slots), diversify begins
ImproveReturnBest ==
    /\ pc = "upgrade"
    /\ UpgradeDone
    /\ ret = "best"
    /\ best_slots' = slots
    /\ results' = push(pool, <<>>, slots)
    /\ div_i' = 1
    /\ pc' = "div_slot"
    /\ UNCHANGED <<budget, k, reqVars, impVars, alts, alt_j, tried, returned>>
    /\ UNCHANGED exactVars

\* head of "for i, s in enumerate(best_slots)"
DivSlotHead ==
    /\ pc = "div_slot"
    /\ IF div_i > Len(best_slots)
       THEN /\ pc' = "sort"
            /\ UNCHANGED <<div_i, alts, alt_j, tried>>
       ELSE IF ~Swappable(pool, anchor_names, best_slots, div_i)
       THEN /\ div_i' = div_i + 1
            /\ UNCHANGED <<pc, alts, alt_j, tried>>
       ELSE /\ alts' = Alts(pool, best_slots, div_i)
            /\ alt_j' = 1
            /\ tried' = 0
            /\ pc' = "div_cand"
            /\ UNCHANGED div_i
    /\ UNCHANGED <<budget, k, reqVars, impVars, best_slots, results, returned>>
    /\ UNCHANGED exactVars

\* head of "for cand in alts": the trial enters _improve_slots_within_budget
DivCandHead ==
    /\ pc = "div_cand"
    /\ IF alt_j > Len(alts)
       THEN /\ IF Len(results) >= KEff(k)
               THEN pc' = "sort" /\ UNCHANGED div_i
               ELSE pc' = "div_slot" /\ div_i' = div_i + 1
            /\ UNCHANGED <<slots, chosen_names, spent, cost_it, ret>>
       ELSE LET trial == [best_slots EXCEPT ![div_i].player = alts[alt_j]]
            IN /\ slots' = trial
               /\ chosen_names' = NamesOf(pool, trial)
               /\ spent' = _slots_spent(pool, trial)
               /\ cost_it' = 0
               /\ ret' = "trial"
               /\ pc' = "cost"
               /\ UNCHANGED div_i
    /\ UNCHANGED <<budget, k, reqVars, up_it, best_slots, alts, alt_j, tried,
                   results, returned>>
    /\ UNCHANGED exactVars

\* the trial's improve returns: push(trial), tried += 1, the two breaks
ImproveReturnTrial ==
    /\ pc = "upgrade"
    /\ UpgradeDone
    /\ ret = "trial"
    /\ results' = push(pool, results, slots)
    /\ tried' = tried + 1
    /\ IF Len(results') >= KEff(k) \/ tried' >= M
       THEN IF Len(results') >= KEff(k)
            THEN pc' = "sort" /\ UNCHANGED <<div_i, alt_j>>
            ELSE pc' = "div_slot" /\ div_i' = div_i + 1 /\ UNCHANGED alt_j
       ELSE pc' = "div_cand" /\ alt_j' = alt_j + 1 /\ UNCHANGED div_i
    /\ UNCHANGED <<budget, k, reqVars, impVars, best_slots, alts, returned>>
    /\ UNCHANGED exactVars

\* results.sort(...); return results[:max(1, int(k))]
SortReturn ==
    /\ pc = "sort"
    /\ results' = SortResults(results)
    /\ returned' = Take(SortResults(results), KEff(k))
    /\ pc' = "done"
    /\ UNCHANGED <<budget, k, reqVars, impVars, divVars>>
    /\ UNCHANGED exactVars

(***************************************************************************)
(* Requests whose diversification trials go over budget with cheaper       *)
(* replacements open in more than one slot.                                *)
(***************************************************************************)
MaxCostRows == 4

MaxCostBudget == 3

CostRows ==
    { Raw(<<"E">>, RB, Num(1), Num(1), FALSE, FALSE),
      Raw(<<"F">>, RB, Num(2), Num(3), FALSE, FALSE),
      Raw(<<"G">>, WR, Num(1), Num(2), FALSE, FALSE),
      Raw(<<"H">>, WR, Num(2), Num(4), FALSE, FALSE),
      Raw(<<"I">>, RB, Num(2), Num(1), TRUE, FALSE) }

CostRosters ==
    { (QB :> 0) @@ (RB :> 1) @@ (WR :> 1) @@ (TE :> 0) @@ (FLEX :> 0) }

\* POST /optimize with a payload of these rows and a budget up to MaxCostBudget
CostRequest ==
    /\ pc = "idle"
    /\ \E p \in SeqsUpTo(CostRows, MaxCostRows), b \in 0..MaxCostBudget,
          kk \in 1..MaxK, o \in CostRosters : Optimize(p, b, kk, o)

(***************************************************************************)
(* parse_rows on its own, over every row of a product of field values.     *)
(***************************************************************************)
ParseInputs ==
    [Name : {<<>>, <<" ">>, <<" ", "A">>}, name : {<<>>, <<"B">>},
     Pos : {<<>>, <<"r", "b">>}, position : {<<>>},
     Price : {Unparsable, Num(-1), Num(2)},
     Projection : {Unparsable, Num(-1)},
     anchor : {FALSE}, exclude : {FALSE}]

ParseRows(p) ==
    /\ payload_rows' = p
    /\ rows' = parse_rows(p)
    /\ pc' = "parsed"
    /\ UNCHANGED <<budget, k, roster, pool, anchor_names, seed_slots, impVars,
                   divVars, results, returned>>
    /\ UNCHANGED exactVars

ParseRequest ==
    /\ pc = "idle"
    /\ \E p \in SeqsUpTo(ParseInputs, MaxParseRows) : ParseRows(p)

(***************************************************************************)
(* Specifications.                                                         *)
(***************************************************************************)
Init ==
    /\ pc = "idle"
    /\ payload_rows = <<>>
    /\ rows = <<>>
    /\ budget = 0
    /\ k = 1
    /\ roster = <<>>
    /\ pool = <<>>
    /\ anchor_names = {}
    /\ seed_slots = <<>>
    /\ best_slots = <<>>
    /\ slots = <<>>
    /\ chosen_names = {}
    /\ spent = 0
    /\ cost_it = 0
    /\ up_it = 0
    /\ ret = "best"
    /\ results = <<>>
    /\ div_i = 0
    /\ alts = <<>>
    /\ alt_j = 0
    /\ tried = 0
    /\ returned = <<>>
    /\ df = <<>>
    /\ anchors_in = <<>>
    /\ anchor_groups = <<>>
    /\ rep = 0
    /\ banned_sets = <<>>
    /\ solutions = <<>>
    /\ unmatched = <<>>
    /\ solver_calls = 0

NextHeur ==
    \/ OptimizeRequest
    \/ SolveSeed
    \/ CostReduceSwap
    \/ CostReduceExit
    \/ UpgradeSwap
    \/ ImproveReturnBest
    \/ DivSlotHead
    \/ DivCandHead
    \/ ImproveReturnTrial
    \/ SortReturn

NextExact ==
    \/ ExactRequest
    \/ SolveRankFound
    \/ SolveRankInfeasible
    \/ ExactReturn

NextParse == ParseRequest

NextCost ==
    \/ CostRequest
    \/ SolveSeed
    \/ CostReduceSwap
    \/ CostReduceExit
    \/ UpgradeSwap
    \/ ImproveReturnBest
    \/ DivSlotHead
    \/ DivCandHead
    \/ ImproveReturnTrial
    \/ SortReturn

Next == NextHeur \/ NextExact

\* both engines
Spec == Init /\ [][Next]_vars

\* the heuristic engine: POST /optimize
SpecHeur == Init /\ [][NextHeur]_vars

\* the exact engine: solve_top_k_strict
SpecExact == Init /\ [][NextExact]_vars

\* parse_rows
SpecParse == Init /\ [][NextParse]_vars

\* the heuristic engine on the requests of CostRequest
SpecCost == Init /\ [][NextCost]_vars

(***************************************************************************)
(* Properties.                                                             *)
(***************************************************************************)
SeedPrice == _slots_spent(pool, seed_slots)

NameSet(players) == {players[i].Name : i \in DOMAIN players}

TableNames(sol) == {sol.table[i].Name : i \in DOMAIN sol.table}

\* C1: when the seeded roster costs at most the budget, every solution the
\* heuristic engine returns costs at most the budget
C1_ReturnedWithinBudget ==
    (pc = "done" /\ SeedPrice <= budget)
        => \A j \in DOMAIN returned : returned[j].total_price <= budget

\* the slots whose seeded player is flagged anchor and not flagged exclude
LockedSlots ==
    {i \in DOMAIN seed_slots : /\ seed_slots[i].player # 0
                               /\ pool[seed_slots[i].player].anchor
                               /\ ~pool[seed_slots[i].player].exclude}

\* position, in a solution's player list, of the player of slot i
SeedRank(i) == Cardinality({j \in 1..i : seed_slots[j].player # 0})

\* C2: an anchor bound at seeding stays in its slot through cost reduction,
\* upgrade and diversification, and is in every recorded and returned solution
C2_AnchorsStay ==
    pc \in {"cost", "upgrade", "div_slot", "div_cand", "sort", "done"} =>
        \A i \in LockedSlots :
            /\ slots[i].player = seed_slots[i].player
            /\ best_slots # <<>> => best_slots[i].player = seed_slots[i].player
            /\ \A j \in DOMAIN results :
                   results[j].players[SeedRank(i)] = pool[seed_slots[i].player]
            /\ \A j \in DOMAIN returned :
                   returned[j].players[SeedRank(i)] = pool[seed_slots[i].player]

C2_Witness ==
    /\ pc = "done"
    /\ LockedSlots # {}
    /\ Len(returned) >= 2

\* C3: every solution of the exact engine is 7 distinct items, 1 QB, at least
\* 2 RB, 2 WR and 1 TE, within budget, with an item of every anchor group, and
\* its table lists the 7 items once each as QB, RB1, RB2, WR1, WR2, TE, FLEX
C3_ExactSolutionShape ==
    \A j \in DOMAIN solutions :
        LET S == banned_sets[j]
            t == solutions[j].table
        IN /\ S \subseteq DOMAIN df
           /\ Cardinality(S) = 7
           /\ Cardinality({i \in S : df[i].Pos = QB}) = 1
           /\ Cardinality({i \in S : df[i].Pos = RB}) >= 2
           /\ Cardinality({i \in S : df[i].Pos = WR}) >= 2
           /\ Cardinality({i \in S : df[i].Pos = TE}) >= 1
           /\ solutions[j].total_cost = Cost(df, S)
           /\ solutions[j].total_cost <= budget
           /\ \A g \in DOMAIN anchor_groups : anchor_groups[g] \cap S # {}
           /\ [i \in DOMAIN t |-> t[i].Slot]
                  = <<"QB", "RB1", "RB2", "WR1", "WR2", "TE", "FLEX">>
           /\ TableNames(solutions[j]) = {df[i].Name : i \in S}
           /\ Cardinality(TableNames(solutions[j])) = 7

C3_Witness ==
    /\ pc = "x_done"
    /\ Len(solutions) >= 2
    /\ anchor_groups # <<>>

\* the item sets that satisfy the budget, size, position and anchor constraints
C4_Base == FeasibleSets(df, budget, anchor_groups, <<>>)

C4_Earlier(r) == {banned_sets[q] : q \in 1..(r - 1)}

\* C4: rank r is a best feasible set among those not returned before it, the
\* ranks are 1..n, and n = min(k, number of feasible sets)
C4_TopK ==
    /\ \A r \in DOMAIN solutions :
          /\ solutions[r].rank = r
          /\ banned_sets[r] \in C4_Base \ C4_Earlier(r)
          /\ solutions[r].total_points = Points(df, banned_sets[r])
          /\ \A T \in C4_Base \ C4_Earlier(r) :
                 solutions[r].total_points >= Points(df, T)
    /\ pc = "x_done" =>
          /\ Len(solutions) = Min(k, Cardinality(C4_Base))
          /\ (solutions = <<>>) <=> (C4_Base = {})

C4_Witness ==
    /\ pc = "x_done"
    /\ Len(solutions) >= 1
    /\ Len(solutions) < k

\* an anchor string no item matches
C5_ZeroMatch(a) == AnchorKey(a) # <<>> /\ MatchIdxs(df, AnchorKey(a)) = {}

C5_ZeroMatchAnchors ==
    FilterSeq(anchors_in, [i \in DOMAIN anchors_in |-> C5_ZeroMatch(anchors_in[i])])

\* C5: if some anchor string matches no item, the exact engine fails before any
\* solver call and the message lists exactly the anchor strings that match none
C5_UnmatchedReported ==
    (pc \in {"x_failed", "x_loop", "x_done"} /\ C5_ZeroMatchAnchors # <<>>)
        => /\ pc = "x_failed"
           /\ solver_calls = 0
           /\ unmatched = C5_ZeroMatchAnchors

\* a string that is empty once trimmed
C6_Blank(s) == \A i \in DOMAIN s : s[i] = " "

C6_NoName(r) == C6_Blank(FirstTruthy(r.Name, r.name))

C6_NoPos(r) == C6_Blank(FirstTruthy(r.Pos, r.position))

C6_Expected(keep) == FilterSeq(payload_rows, keep)

\* the rows parse_rows returned are the rows of kept, in order
C6_RowsAre(kept) ==
    /\ Len(rows) = Len(kept)
    /\ \A i \in DOMAIN rows :
          /\ i \in DOMAIN kept
          /\ rows[i].Name = Strip(FirstTruthy(kept[i].Name, kept[i].name))
          /\ rows[i].Price >= 0
          /\ rows[i].Projection >= 0
          /\ kept[i].Price.ok => rows[i].Price = Max(0, kept[i].Price.val)
          /\ kept[i].Projection.ok => rows[i].Projection = Max(0, kept[i].Projection.val)
          /\ ~kept[i].Price.ok => rows[i].Price = 0
          /\ ~kept[i].Projection.ok => rows[i].Projection = 0

\* C6 as claimed: parse_rows drops every row without a name, without a
\* position or with an unparsable Price or Projection, and every row kept has
\* Price >= 0 and Projection >= 0
C6_DropsMalformed ==
    pc = "parsed" =>
        C6_RowsAre(C6_Expected([i \in DOMAIN payload_rows |->
            /\ ~C6_NoName(payload_rows[i])
            /\ ~C6_NoPos(payload_rows[i])
            /\ payload_rows[i].Price.ok
            /\ payload_rows[i].Projection.ok]))

\* C6 amended: parse_rows drops exactly the rows without a name or without a
\* position; a row with an unparsable Price or Projection is kept with that
\* field 0; every row kept has Price >= 0 and Projection >= 0
C6_DropsNameless ==
    pc = "parsed" =>
        C6_RowsAre(C6_Expected([i \in DOMAIN payload_rows |->
            /\ ~C6_NoName(payload_rows[i])
            /\ ~C6_NoPos(payload_rows[i])]))

C6_Witness ==
    /\ pc = "parsed"
    /\ Len(rows) = 1
    /\ Len(payload_rows) = 2
    /\ \E i \in DOMAIN payload_rows :
          /\ ~payload_rows[i].Price.ok
          /\ ~C6_NoName(payload_rows[i])
          /\ ~C6_NoPos(payload_rows[i])

\* C7: no name occurs twice in the player list of a returned solution
C7_NoDuplicateNames ==
    /\ pc = "done" =>
          \A j \in DOMAIN returned :
              Cardinality(NameSet(returned[j].players)) = Len(returned[j].players)
    /\ pc = "x_done" =>
          \A j \in DOMAIN solutions :
              Cardinality(TableNames(solutions[j])) = Len(solutions[j].table)

\* C8: no two solutions of a returned (or recorded) list have the same set of
\* player names
C8_DistinctSolutions ==
    /\ \A a, b \in DOMAIN results :
          a # b => NameSet(results[a].players) # NameSet(results[b].players)
    /\ \A a, b \in DOMAIN returned :
          a # b => NameSet(returned[a].players) # NameSet(returned[b].players)
    /\ \A a, b \in DOMAIN solutions :
          a # b => TableNames(solutions[a]) # TableNames(solutions[b])

C8_Witness ==
    /\ pc = "done"
    /\ Len(returned) >= 2
    /\ tried >= Len(results)

\* C9: a returned list is in non-increasing order of total projected value
C9_Descending ==
    /\ pc = "done" =>
          \A j \in 1..(Len(returned) - 1) :
              returned[j].total_projection >= returned[j + 1].total_projection
    /\ pc = "x_done" =>
          \A j \in 1..(Len(solutions) - 1) :
              /\ solutions[j].total_points >= solutions[j + 1].total_points
              /\ solutions[j + 1].rank = solutions[j].rank + 1

C9_Witness ==
    /\ pc = "done"
    /\ Len(returned) >= 2
    /\ returned[1].total_projection > returned[2].total_projection

RosterTotal == SumOver(roster, DOMAIN roster)

Unfilled == {i \in DOMAIN seed_slots : seed_slots[i].player = 0}

\* C10: a solution's player count is the roster's total less the slots left
\* empty at seeding, a slot being left empty only when every compatible row's
\* name is taken, and it is the same in every solution
C10_PlayerCount ==
    pc \in {"cost", "upgrade", "div_slot", "div_cand", "sort", "done"} =>
        /\ Len(seed_slots) = RosterTotal
        /\ \A i \in Unfilled : \A r \in DOMAIN pool :
               _slot_allows(seed_slots[i].type, pool[r].Pos)
                   => pool[r].Name \in NamesOf(pool, seed_slots)
        /\ Len(_slots_players(slots)) = RosterTotal - Cardinality(Unfilled)
        /\ \A j \in DOMAIN results :
               Len(results[j].players) = RosterTotal - Cardinality(Unfilled)
        /\ \A j \in DOMAIN returned :
               Len(returned[j].players) = RosterTotal - Cardinality(Unfilled)

C10_Witness ==
    /\ pc = "done"
    /\ Unfilled # {}
    /\ Len(returned) >= 2
    /\ Len(returned[1].players) >= 1

\* the candidate swaps of a slot list: a bound slot whose occupant's name is no
\* anchor's, with a compatible unused row strictly cheaper than the occupant
\* and no dearer than any other such row
C11_Offers(sl, chosen) ==
    {o \in (DOMAIN sl) \X (DOMAIN pool) :
        /\ sl[o[1]].player # 0
        /\ pool[sl[o[1]].player].Name \notin anchor_names
        /\ o[2] \in CostCands(pool, sl, chosen, o[1])
        /\ \A q \in CostCands(pool, sl, chosen, o[1]) :
               pool[o[2]].Price <= pool[q].Price}

C11_Saving(sl, o) == pool[sl[o[1]].player].Price - pool[o[2]].Price

\* the iteration binds the replacement of offer o and nothing else
C11_Applied(o) == slots' = [slots EXCEPT ![o[1]].player = o[2]]

\* an iteration of the cost-reduction loop that applies a swap
C11_Iteration == pc = "cost" /\ cost_it' = cost_it + 1

\* the loop is left only within budget, without a candidate swap or at the cap,
\* and iterates only over budget and below the cap
C11_Stops ==
    /\ (pc = "cost" /\ pc' = "upgrade")
           => \/ spent <= budget
              \/ C11_Offers(slots, chosen_names) = {}
              \/ cost_it >= COST_ITERS
    /\ C11_Iteration => (spent > budget /\ cost_it < COST_ITERS)

\* C11 as stated: every iteration of the cost-reduction loop applies the
\* candidate swap with the largest price reduction and, among swaps of equal
\* largest reduction, one whose replacement has the highest projection; the
\* loop stops within budget, without a candidate swap or after 200 iterations
C11_TieByProjection ==
    [][/\ C11_Stops
       /\ C11_Iteration =>
             \E o \in C11_Offers(slots, chosen_names) :
                 /\ C11_Applied(o)
                 /\ \A q \in C11_Offers(slots, chosen_names) :
                        \/ C11_Saving(slots, o) > C11_Saving(slots, q)
                        \/ /\ C11_Saving(slots, o) = C11_Saving(slots, q)
                           /\ pool[o[2]].Projection >= pool[q[2]].Projection]_vars

\* C11: every iteration of the cost-reduction loop applies the candidate swap
\* with the largest price reduction; among slots of equal largest reduction it
\* is the first slot of the slot list, and within that slot the cheapest
\* replacement of the highest projection; the loop stops within budget,
\* without a candidate swap or after 200 iterations
C11_TieByFirstSlot ==
    [][/\ C11_Stops
       /\ C11_Iteration =>
             \E o \in C11_Offers(slots, chosen_names) :
                 /\ C11_Applied(o)
                 /\ \A q \in C11_Offers(slots, chosen_names) :
                        \/ C11_Saving(slots, o) > C11_Saving(slots, q)
                        \/ /\ C11_Saving(slots, o) = C11_Saving(slots, q)
                           /\ o[1] < q[1]
                        \/ /\ C11_Saving(slots, o) = C11_Saving(slots, q)
                           /\ o[1] = q[1]
                           /\ pool[o[2]].Projection >= pool[q[2]].Projection]_vars

\* the slot list a diversification trial hands to cost reduction
C11_Trial == [best_slots EXCEPT ![div_i].player = alts[alt_j]]

\* the first iteration of a trial's cost reduction has applied the swap of the
\* earlier of two slots that offered the same largest price reduction, the
\* later slot's replacement having the higher projection
C11_Witness ==
    /\ pc = "cost"
    /\ ret = "trial"
    /\ cost_it = 1
    /\ LET ch == NamesOf(pool, C11_Trial)
           O == C11_Offers(C11_Trial, ch)
       IN \E o \in O, q \in O :
              /\ o[1] < q[1]
              /\ C11_Saving(C11_Trial, o) = C11_Saving(C11_Trial, q)
              /\ \A x \in O : C11_Saving(C11_Trial, x) <= C11_Saving(C11_Trial, o)
              /\ pool[q[2]].Projection > pool[o[2]].Projection
              /\ slots = [C11_Trial EXCEPT ![o[1]].player = o[2]]

====
